---- MODULE Spec2Model ----
(***************************************************************************)
(* EMI calculator (emi_calculator.py, main.py): the installment solver,    *)
(* the payment date generator, the day count conventions and the           *)
(* amortization schedule with its last-period adjustment.                  *)
(*                                                                         *)
(* Money is held as an integer count of mills (10^-3); a value produced by *)
(* finance_round(x, 2) is a whole number of cents and is held as a count   *)
(* of cents.  Rates are held in hundredths of a percent.  All arithmetic   *)
(* the source does on Decimal with 28 digits is done here on Decimal with  *)
(* 28 digits (the Dec* operators).                                         *)
(***************************************************************************)
EXTENDS Integers, Sequences, FiniteSets, TLC


(***************************************************************************)
(* decimal.Decimal under getcontext().prec = 28 (emi_calculator.py:7).     *)
(* TLC integers are 32 bits wide, so a coefficient is a natural held as a  *)
(* little-endian sequence of base-10^4 limbs with no leading zero limb     *)
(* (zero is the empty sequence).  A Decimal is (-1)^neg * c * 10^e; every  *)
(* arithmetic result is rounded to prec significant digits, half-even,     *)
(* which is the default rounding of the decimal context.                   *)
(***************************************************************************)
LimbBase == 10^4

prec == 28

Pow10(k) == 10^k

\* the element of a one-element set
Only(S) == CHOOSE x \in S : TRUE

RECURSIVE Trim(_)
Trim(a) == IF a = <<>> THEN a
           ELSE IF a[Len(a)] = 0 THEN Trim(SubSeq(a, 1, Len(a) - 1)) ELSE a

RECURSIVE BigOfInt(_)
BigOfInt(n) == IF n = 0 THEN <<>> ELSE <<n % LimbBase>> \o BigOfInt(n \div LimbBase)

RECURSIVE IntOfBig(_)
IntOfBig(a) == IF a = <<>> THEN 0 ELSE a[1] + LimbBase * IntOfBig(Tail(a))

Limb(a, i) == IF i >= 1 /\ i <= Len(a) THEN a[i] ELSE 0

RECURSIVE CmpFrom(_, _, _)
CmpFrom(a, b, i) == IF i = 0 THEN 0
                    ELSE IF a[i] < b[i] THEN -1
                    ELSE IF a[i] > b[i] THEN 1
                    ELSE CmpFrom(a, b, i - 1)

BCmp(a, b) == IF Len(a) < Len(b) THEN -1
              ELSE IF Len(a) > Len(b) THEN 1
              ELSE CmpFrom(a, b, Len(a))

RECURSIVE Carry(_, _, _)
Carry(cols, i, c) == IF i > Len(cols) THEN BigOfInt(c)
                     ELSE LET t == cols[i] + c
                          IN  <<t % LimbBase>> \o Carry(cols, i + 1, t \div LimbBase)

Max(x, y) == IF x >= y THEN x ELSE y
Min(x, y) == IF x <= y THEN x ELSE y

BAdd(a, b) == Carry([i \in 1..Max(Len(a), Len(b)) |-> Limb(a, i) + Limb(b, i)], 1, 0)

RECURSIVE Borrow(_, _, _, _)
Borrow(a, b, i, c) == IF i > Len(a) THEN <<>>
                      ELSE LET t == a[i] - Limb(b, i) - c
                           IN  IF t < 0 THEN <<t + LimbBase>> \o Borrow(a, b, i + 1, 1)
                                        ELSE <<t>> \o Borrow(a, b, i + 1, 0)

\* a - b for a >= b
BSub(a, b) == Trim(Borrow(a, b, 1, 0))

BMulSmall(a, k) == IF k = 0 THEN <<>> ELSE Carry([i \in 1..Len(a) |-> a[i] * k], 1, 0)

RECURSIVE ColSum(_, _, _, _)
ColSum(a, b, k, i) == IF i > Min(k, Len(a)) THEN 0
                      ELSE a[i] * Limb(b, k + 1 - i) + ColSum(a, b, k, i + 1)

BMul(a, b) == IF a = <<>> \/ b = <<>> THEN <<>>
              ELSE Trim(Carry([k \in 1..(Len(a) + Len(b) - 1) |->
                                 ColSum(a, b, k, Max(1, k + 1 - Len(b)))], 1, 0))

\* a * 10^k
BMulPow10(a, k) == IF a = <<>> THEN <<>>
                   ELSE [i \in 1..(k \div 4) |-> 0] \o BMulSmall(a, Pow10(k % 4))

SmallDigits(n) == IF n >= 1000 THEN 4 ELSE IF n >= 100 THEN 3 ELSE IF n >= 10 THEN 2 ELSE 1

NumDigits(a) == IF a = <<>> THEN 0 ELSE 4 * (Len(a) - 1) + SmallDigits(a[Len(a)])

\* decimal digit i (0 = least significant)
Digit(a, i) == (Limb(a, (i \div 4) + 1) \div Pow10(i % 4)) % 10

\* some digit below position i is not zero
LowNonzero(a, i) == \/ \E j \in 1..Min(i \div 4, Len(a)) : a[j] # 0
                    \/ Limb(a, (i \div 4) + 1) % Pow10(i % 4) # 0

\* floor(a / 10^k)
BDivPow10(a, k) ==
    LET q == k \div 4
        r == k % 4
    IN  IF Len(a) <= q THEN <<>>
        ELSE Trim([j \in 1..(Len(a) - q) |->
                     (a[j + q] \div Pow10(r)) + (Limb(a, j + q + 1) % Pow10(r)) * Pow10(4 - r)])

\* a / 10^k rounded half-even; sticky: the value had further nonzero digits
BRoundPow10(a, k, sticky) ==
    IF k = 0 THEN a
    ELSE LET t    == BDivPow10(a, k)
             d    == Digit(a, k - 1)
             more == sticky \/ LowNonzero(a, k - 1)
             up   == d > 5 \/ (d = 5 /\ (more \/ Limb(t, 1) % 2 = 1))
         IN  IF up THEN BAdd(t, <<1>>) ELSE t

\* the quotient limb q and q * den, from a first guess that is not too small
RECURSIVE FixQuot(_, _, _, _)
FixQuot(rem, den, q, t) == IF BCmp(t, rem) > 0 THEN FixQuot(rem, den, q - 1, BSub(t, den))
                           ELSE [q |-> q, t |-> t]

\* one step of long division: rem < den * LimbBase, the top limb of den
\* at least LimbBase / 2
QuotLimb(rem, den) ==
    IF BCmp(rem, den) < 0 THEN [q |-> 0, t |-> <<>>]
    ELSE LET n   == Len(den)
             top == Limb(rem, n + 1) * LimbBase + rem[n]
             q0  == Min(top \div den[n], LimbBase - 1)
         IN  FixQuot(rem, den, q0, BMulSmall(den, q0))

\* one step of long division, bringing down the limb below the remainder
\* acc.r: the new remainder and the quotient limbs so far
DivStep(limb, den, acc) ==
    LET r1 == Trim(<<limb>> \o acc.r)
        ql == QuotLimb(r1, den)
    IN  [r |-> BSub(r1, ql.t), q |-> <<ql.q>> \o acc.q]

\* long division of the limbs hi, hi - 1 .. lo of num, continuing from acc;
\* the steps are taken in order, the upper half before the lower half
RECURSIVE LongDiv(_, _, _, _, _)
LongDiv(num, den, hi, lo, acc) ==
    IF hi = lo THEN DivStep(num[hi], den, acc)
    ELSE LET mid == (hi + lo + 1) \div 2
         IN  Only({ LongDiv(num, den, mid - 1, lo, a) : a \in {LongDiv(num, den, hi, mid, acc)} })

\* one step of the division by a single limb d; the remainder acc.r is an
\* integer
ShortStep(limb, d, acc) ==
    LET cur == acc.r * LimbBase + limb
    IN  [r |-> cur % d, q |-> <<cur \div d>> \o acc.q]

\* division of the limbs hi, hi - 1 .. lo of num by a single limb d
RECURSIVE ShortDiv(_, _, _, _, _)
ShortDiv(num, d, hi, lo, acc) ==
    IF hi = lo THEN ShortStep(num[hi], d, acc)
    ELSE LET mid == (hi + lo + 1) \div 2
         IN  Only({ ShortDiv(num, d, mid - 1, lo, a) : a \in {ShortDiv(num, d, hi, mid, acc)} })

\* floor(num / den), and a remainder that is zero exactly when den divides
\* num (den # 0)
BDivMod(num, den) ==
    IF num = <<>> THEN [q |-> <<>>, r |-> <<>>]
    ELSE IF Len(den) = 1
    THEN LET s == ShortDiv(num, den[1], Len(num), 1, [r |-> 0, q |-> <<>>])
         IN  [q |-> Trim(s.q), r |-> BigOfInt(s.r)]
    ELSE LET f  == LimbBase \div (den[Len(den)] + 1)
             n1 == BMulSmall(num, f)
             l  == LongDiv(n1, BMulSmall(den, f), Len(n1), 1, [r |-> <<>>, q |-> <<>>])
         IN  [q |-> Trim(l.q), r |-> l.r]

\* Decimal values
Dec(n, e) == [neg |-> n < 0, c |-> BigOfInt(IF n < 0 THEN -n ELSE n), e |-> e]

DecFix(neg, c, e, sticky) ==
    LET nd == NumDigits(c)
    IN  IF nd <= prec THEN [neg |-> neg, c |-> c, e |-> e]
        ELSE LET k == nd - prec
                 r == BRoundPow10(c, k, sticky)
             IN  IF NumDigits(r) > prec
                 THEN [neg |-> neg, c |-> BDivPow10(r, 1), e |-> e + k + 1]
                 ELSE [neg |-> neg, c |-> r, e |-> e + k]

DecMul(x, y) == DecFix(x.neg # y.neg, BMul(x.c, y.c), x.e + y.e, FALSE)

DecDiv(x, y) ==
    IF x.c = <<>> THEN [neg |-> x.neg # y.neg, c |-> <<>>, e |-> x.e - y.e]
    ELSE LET shift == NumDigits(y.c) - NumDigits(x.c) + prec + 1
             d == IF shift >= 0 THEN BDivMod(BMulPow10(x.c, shift), y.c)
                                ELSE BDivMod(x.c, BMulPow10(y.c, -shift))
         IN  DecFix(x.neg # y.neg, d.q, x.e - y.e - shift, d.r # <<>>)

\* x + y for x, y of the same sign
DecAdd(x, y) ==
    LET e == Min(x.e, y.e)
    IN  DecFix(x.neg, BAdd(BMulPow10(x.c, x.e - e), BMulPow10(y.c, y.e - e)), e, FALSE)

\* value.quantize(10 ** -ndigits, ROUND_HALF_EVEN), as a count of 10^-ndigits
Quantize(x, ndigits) ==
    LET k == -ndigits - x.e
        m == IntOfBig(IF k <= 0 THEN BMulPow10(x.c, -k) ELSE BRoundPow10(x.c, k, FALSE))
    IN  IF x.neg THEN -m ELSE m
(***************************************************************************)
(* Calendar dates: datetime.date, calendar, dateutil.relativedelta         *)
(***************************************************************************)
Date(y, m, d) == [year |-> y, month |-> m, day |-> d]

\* calendar.isleap
isleap(y) == y % 4 = 0 /\ (y % 100 # 0 \/ y % 400 = 0)

\* calendar.monthrange(year, month)[1]
monthrange(y, m) == IF m = 2 THEN (IF isleap(y) THEN 29 ELSE 28)
                    ELSE IF m \in {4, 6, 9, 11} THEN 30 ELSE 31

RECURSIVE DaysBeforeMonth(_, _)
DaysBeforeMonth(y, m) == IF m = 1 THEN 0 ELSE monthrange(y, m - 1) + DaysBeforeMonth(y, m - 1)

\* date.toordinal(): days since 0001-01-01, plus one
toordinal(dt) == LET y == dt.year - 1
                 IN  y * 365 + y \div 4 - y \div 100 + y \div 400
                     + DaysBeforeMonth(dt.year, dt.month) + dt.day

\* (end_date - start_date).days
DaysBetween(start_date, end_date) == toordinal(end_date) - toordinal(start_date)

\* date + timedelta(days = n), n >= 0
RECURSIVE AddDays(_, _)
AddDays(dt, n) ==
    LET last == monthrange(dt.year, dt.month)
    IN  IF dt.day + n <= last THEN Date(dt.year, dt.month, dt.day + n)
        ELSE AddDays(IF dt.month = 12 THEN Date(dt.year + 1, 1, 1)
                                      ELSE Date(dt.year, dt.month + 1, 1),
                     n - (last - dt.day) - 1)

\* date + relativedelta(months = n): the day is clamped to the target month
AddMonths(dt, n) ==
    LET t == (dt.month - 1) + n
        y == dt.year + t \div 12
        m == (t % 12) + 1
    IN  Date(y, m, IF dt.day <= monthrange(y, m) THEN dt.day ELSE monthrange(y, m))

IsMonthEnd(dt) == dt.day = monthrange(dt.year, dt.month)

\* AddWeeks with the month-end rule of the month-based rolls applied to it
AddWeeksMonthAware(dt, n) ==
    LET nd == AddDays(dt, 7 * n)
    IN  IF IsMonthEnd(dt) THEN Date(nd.year, nd.month, monthrange(nd.year, nd.month)) ELSE nd

\* date + relativedelta(weeks = n)
AddWeeks(dt, n) == AddDays(dt, 7 * n)

(***************************************************************************)
(* emi_calculator.py                                                       *)
(***************************************************************************)
\* finance_round(value, ndigits): value.quantize(10 ** -ndigits,
\* ROUND_HALF_EVEN), as a count of units of 10^-ndigits
finance_round(value, ndigits) == Quantize(value, ndigits)

\* a money amount held in mills, as a Decimal
Mills(v) == Dec(v, -3)

\* a money amount held in cents, in mills
CentsToMills(c) == 10 * c

\* finance_round(v, 2) of an amount held in mills, in cents
RoundMills(v) == finance_round(Mills(v), 2)

\* DayCountConvention: each returns (year fraction, days)
year_fraction_30_360(start_date, end_date) ==
    LET d1   == Min(start_date.day, 30)
        d2   == Min(end_date.day, 30)
        days == (end_date.year - start_date.year) * 360
                + (end_date.month - start_date.month) * 30 + (d2 - d1)
    IN  [yf |-> DecDiv(Dec(days, 0), Dec(360, 0)), days |-> days]

year_fraction_actual_360(start_date, end_date) ==
    LET days == DaysBetween(start_date, end_date)
    IN  [yf |-> DecDiv(Dec(days, 0), Dec(360, 0)), days |-> days]

year_fraction_actual_365(start_date, end_date) ==
    LET days == DaysBetween(start_date, end_date)
    IN  [yf |-> DecDiv(Dec(days, 0), Dec(365, 0)), days |-> days]

year_fraction_actual_actual(start_date, end_date) ==
    LET days      == DaysBetween(start_date, end_date)
        year_days == IF isleap(start_date.year) THEN 366 ELSE 365
    IN  [yf |-> DecDiv(Dec(days, 0), Dec(year_days, 0)), days |-> days]

\* the keys of the periods_per_year table of __init__
periods_per_year == [W |-> 52, BW |-> 26, M |-> 12, Q |-> 4, S |-> 2, A |-> 1]

\* the keys of the convention table of __init__
ConventionKeys == {"30/360", "Actual/360", "Actual/365", "Actual/Actual"}

\* self.dcc(start_date, end_date), the function selected by the convention
dcc(convention, start_date, end_date) ==
    CASE convention = "30/360"        -> year_fraction_30_360(start_date, end_date)
      [] convention = "Actual/360"    -> year_fraction_actual_360(start_date, end_date)
      [] convention = "Actual/365"    -> year_fraction_actual_365(start_date, end_date)
      [] convention = "Actual/Actual" -> year_fraction_actual_actual(start_date, end_date)

\* self.R = Decimal(annual_rate) / 100, annual_rate in hundredths of a percent
RateOf(rate) == DecDiv(Dec(rate, -2), Dec(100, 0))

\* _adjust_end_of_month without its month-end override
adjust_end_of_month_plain(date, months_to_add) == AddMonths(date, months_to_add)

\* _adjust_end_of_month(date, months_to_add)
adjust_end_of_month(date, months_to_add) ==
    LET new_date == AddMonths(date, months_to_add)
        last_day == monthrange(new_date.year, new_date.month)
    IN  IF date.day = monthrange(date.year, date.month)
        THEN Date(new_date.year, new_date.month, last_day)
        ELSE new_date

\* one pass of the loop of _generate_payment_dates: the next date after d
NextPaymentDate(freq, d) ==
    CASE freq = "W"  -> AddWeeks(d, 1)
      [] freq = "BW" -> AddWeeks(d, 2)
      [] freq = "M"  -> adjust_end_of_month(d, 1)
      [] freq = "Q"  -> adjust_end_of_month(d, 3)
      [] freq = "S"  -> adjust_end_of_month(d, 6)
      [] freq = "A"  -> adjust_end_of_month(d, 12)

\* the loop of _generate_payment_dates: n dates, each rolled from the one
\* before it, the first from d (the list is built by halves)
RECURSIVE RollDates(_, _, _)
RollDates(freq, d, n) ==
    IF n <= 0 THEN <<>>
    ELSE IF n = 1 THEN <<NextPaymentDate(freq, d)>>
    ELSE LET h     == n \div 2
             first == RollDates(freq, d, h)
         IN  first \o RollDates(freq, first[h], n - h)

\* _generate_payment_dates one period short
generate_payment_dates_short(start, freq, nterms) ==
    <<start>> \o RollDates(freq, start, nterms - 1)

\* _generate_payment_dates(): the start date, then one date per period
generate_payment_dates(start, freq, nterms) == <<start>> \o RollDates(freq, start, nterms)

\* one pass of the loop of calculate_emi (lines 105-108) over the pair
\* (prev_date, pay_date): the new product and F.  Each intermediate value
\* is bound before the next operation uses it, in the order of the source:
\* yf, self.R * yf, factor, product, Decimal(1) / product.
EmiStep(R, conv, prev_date, pay_date, prod, sum) ==
    Only({ [product |-> p, F |-> DecAdd(sum, inv)] :
           <<p, inv>> \in { <<q, DecDiv(Dec(1, 0), q)>> :
               q \in { DecMul(prod, factor) :
                   factor \in { DecAdd(Dec(1, 0), ry) :
                       ry \in { DecMul(R, yf) :
                           yf \in {dcc(conv, prev_date, pay_date).yf} } } } } })

\* the last adjustment without balance = Decimal("0.00")
LastAdjustmentKeepsBalance(i, nterms, installment, principal, interest, balance) ==
    IF i = nterms
    THEN [principal |-> principal + balance,
          emi       |-> principal + balance + interest,
          balance   |-> balance]
    ELSE [principal |-> principal, emi |-> installment, balance |-> balance]

\* the last adjustment without principal += balance
LastAdjustmentDropsResidual(i, nterms, installment, principal, interest, balance) ==
    IF i = nterms
    THEN [principal |-> principal, emi |-> principal + interest, balance |-> 0]
    ELSE [principal |-> principal, emi |-> installment, balance |-> balance]

\* the last adjustment without emi = principal + interest
LastAdjustmentKeepsInstallment(i, nterms, installment, principal, interest, balance) ==
    IF i = nterms
    THEN [principal |-> principal + balance, emi |-> installment, balance |-> 0]
    ELSE [principal |-> principal, emi |-> installment, balance |-> balance]

\* the last adjustment of get_schedule (lines 127-132); amounts in mills
LastAdjustment(i, nterms, installment, principal, interest, balance) ==
    IF i = nterms
    THEN [principal |-> principal + balance,
          emi       |-> principal + balance + interest,
          balance   |-> 0]
    ELSE [principal |-> principal, emi |-> installment, balance |-> balance]

\* the row with the balance after the payment as its opening balance
ScheduleRowOpensAtClosing(i, pay_date, a, interest) ==
    [payment_no      |-> i,
     payment_date    |-> pay_date,
     opening_balance |-> RoundMills(a.balance),
     principal       |-> RoundMills(a.principal),
     interest        |-> RoundMills(interest),
     emi             |-> RoundMills(a.emi),
     closing_balance |-> RoundMills(a.balance)]

\* the row appended to the schedule (lines 134-142); fields in cents
ScheduleRow(i, pay_date, a, interest) ==
    [payment_no      |-> i,
     payment_date    |-> pay_date,
     opening_balance |-> RoundMills(a.balance + a.principal),
     principal       |-> RoundMills(a.principal),
     interest        |-> RoundMills(interest),
     emi             |-> RoundMills(a.emi),
     closing_balance |-> RoundMills(a.balance)]

\* the interest of a period (lines 122-123), in mills: balance * self.R is
\* bound before it is multiplied by yf, the product before it is rounded
Interest(R, conv, prev_date, pay_date, bal) ==
    Only({ CentsToMills(finance_round(byf, 2)) :
           byf \in { DecMul(br, yf) :
               br \in {DecMul(Mills(bal), R)},
               yf \in {dcc(conv, prev_date, pay_date).yf} } })

\* one pass of the loop with balance -= emi in place of balance -= principal
ScheduleStepPaysInstallment(i, nterms, R, conv, installment, prev_date, pay_date, bal) ==
    LET interest  == Interest(R, conv, prev_date, pay_date, bal)
        principal == CentsToMills(installment) - interest
        a         == LastAdjustment(i, nterms, CentsToMills(installment), principal,
                                    interest, bal - CentsToMills(installment))
    IN  [row |-> ScheduleRow(i, pay_date, a, interest), balance |-> a.balance]

\* one pass of the loop of get_schedule (lines 122-142) for payment i over
\* the pair (prev_date, pay_date): the row and the balance carried on;
\* installment in cents, bal in mills
ScheduleStep(i, nterms, R, conv, installment, prev_date, pay_date, bal) ==
    LET interest  == Interest(R, conv, prev_date, pay_date, bal)
        principal == CentsToMills(installment) - interest
        a         == LastAdjustment(i, nterms, CentsToMills(installment), principal,
                                    interest, bal - principal)
    IN  [row |-> ScheduleRow(i, pay_date, a, interest), balance |-> a.balance]

\* sum(r[field] for r in rows[lo .. hi]), added up by halves
RECURSIVE SumRange(_, _, _, _)
SumRange(rows, field, lo, hi) ==
    IF lo > hi THEN 0
    ELSE IF lo = hi THEN rows[lo][field]
    ELSE LET mid == (lo + hi) \div 2
         IN  SumRange(rows, field, lo, mid) + SumRange(rows, field, mid + 1, hi)

\* sum(r[field] for r in rows)
SumOf(rows, field) == SumRange(rows, field, 1, Len(rows))

(***************************************************************************)
(* The calculator as its callers drive it (calculate_loan of main.py, and  *)
(* the script at the end of emi_calculator.py): construct, which solves    *)
(* the installment; get the schedule; total its columns.  The two loops    *)
(* over the payment dates take one step per pass.                          *)
(***************************************************************************)
VARIABLES
    P,            \* principal argument, in mills
    annual_rate,  \* annual rate argument, in hundredths of a percent
    start_date,   \* start date argument
    years,        \* term argument
    convention,   \* convention code argument
    frequency,    \* frequency code argument
    pc,           \* where the caller is
    error,        \* the exception the constructor raised, or "none"
    R,            \* self.R
    terms,        \* self.terms
    emi,          \* self.emi, in cents
    dates,        \* the list _generate_payment_dates returned last
    k,            \* index into dates of prev_date in the running loop
    product,      \* calculate_emi: product
    F,            \* calculate_emi: F
    balance,      \* get_schedule: balance, in mills
    schedule,     \* get_schedule: schedule
    totals        \* the column totals of the schedule, in cents

vars == <<P, annual_rate, start_date, years, convention, frequency, pc, error,
          R, terms, emi, dates, k, product, F, balance, schedule, totals>>

args == <<P, annual_rate, start_date, years, convention, frequency>>

MaxYears == 2

Principals == {100000, 100005, 50, 0}

Rates == {900}

StartDates == {Date(2024, 1, 31), Date(2023, 1, 30), Date(2023, 12, 15)}

FrequencyCodes == DOMAIN periods_per_year \cup {"D"}

ConventionCodes == ConventionKeys \cup {"Actual/364"}

NoTotals == [total_principal |-> 0, total_interest |-> 0, total_payments |-> 0]

Init ==
    /\ P \in Principals
    /\ annual_rate \in Rates
    /\ start_date \in StartDates
    /\ years \in -1..MaxYears
    /\ convention \in ConventionCodes
    /\ frequency \in FrequencyCodes
    /\ pc = "request"
    /\ error = "none"
    /\ R = Dec(0, 0)
    /\ terms = 0
    /\ emi = 0
    /\ dates = <<>>
    /\ k = 0
    /\ product = Dec(1, 0)
    /\ F = Dec(0, 0)
    /\ balance = 0
    /\ schedule = <<>>
    /\ totals = NoTotals

\* EMI_Calculator.__init__ up to its call of calculate_emi (lines 48-65) and
\* calculate_emi up to its loop (lines 99-102)
Construct ==
    /\ pc = "request"
    /\ \/ /\ frequency \notin DOMAIN periods_per_year
          /\ pc' = "raised"
          /\ error' = "KeyError"
          /\ UNCHANGED <<terms, dates, k>>
       \/ /\ frequency \in DOMAIN periods_per_year
          /\ convention \notin ConventionKeys
          /\ pc' = "raised"
          /\ error' = "KeyError"
          /\ terms' = years * periods_per_year[frequency]
          /\ UNCHANGED <<dates, k>>
       \/ /\ frequency \in DOMAIN periods_per_year
          /\ convention \in ConventionKeys
          /\ pc' = "calculate_emi"
          /\ terms' = years * periods_per_year[frequency]
          /\ dates' = generate_payment_dates(start_date, frequency, terms')
          /\ k' = 1
          /\ UNCHANGED error
    /\ R' = RateOf(annual_rate)
    /\ product' = Dec(1, 0)
    /\ F' = Dec(0, 0)
    /\ UNCHANGED <<args, emi, balance, schedule, totals>>

\* one pass of the loop of calculate_emi (lines 104-109)
EmiLoop ==
    /\ pc = "calculate_emi"
    /\ k < Len(dates)
    /\ \E s \in {EmiStep(R, convention, dates[k], dates[k + 1], product, F)} :
           /\ product' = s.product
           /\ F' = s.F
    /\ k' = k + 1
    /\ UNCHANGED <<args, pc, error, R, terms, emi, dates, balance, schedule, totals>>

\* the end of calculate_emi (lines 111-112) and of __init__ (line 67)
EmiReturn ==
    /\ pc = "calculate_emi"
    /\ k = Len(dates)
    /\ \/ /\ F.c = <<>>
          /\ pc' = "raised"
          /\ error' = IF P = 0 THEN "InvalidOperation" ELSE "DivisionByZero"
          /\ UNCHANGED emi
       \/ /\ F.c # <<>>
          /\ pc' = "constructed"
          /\ \E quotient \in {DecDiv(Mills(P), F)} : emi' = finance_round(quotient, 2)
          /\ UNCHANGED error
    /\ UNCHANGED <<args, R, terms, dates, k, product, F, balance, schedule, totals>>

\* get_schedule up to its loop (lines 116-119)
GetSchedule ==
    /\ pc = "constructed"
    /\ schedule' = <<>>
    /\ balance' = P
    /\ dates' = generate_payment_dates(start_date, frequency, terms)
    /\ k' = 1
    /\ pc' = "get_schedule"
    /\ UNCHANGED <<args, error, R, terms, emi, product, F, totals>>

\* one pass of the loop of get_schedule (lines 121-143), payment k
ScheduleLoop ==
    /\ pc = "get_schedule"
    /\ k < Len(dates)
    /\ \E s \in {ScheduleStep(k, terms, R, convention, emi,
                               dates[k], dates[k + 1], balance)} :
           /\ schedule' = Append(schedule, s.row)
           /\ balance' = s.balance
    /\ k' = k + 1
    /\ UNCHANGED <<args, pc, error, R, terms, emi, dates, product, F, totals>>

\* get_schedule returns (line 145)
ScheduleReturn ==
    /\ pc = "get_schedule"
    /\ k = Len(dates)
    /\ pc' = "scheduled"
    /\ UNCHANGED <<args, error, R, terms, emi, dates, k, product, F, balance, schedule, totals>>

\* the totals of the returned schedule (print_schedule lines 150-151 and
\* 160-162; calculate_loan of main.py lines 50-52)
Summarize ==
    /\ pc = "scheduled"
    /\ LET total_principal == SumOf(schedule, "principal")
           total_interest  == SumOf(schedule, "interest")
       IN  totals' = [total_principal |-> RoundMills(CentsToMills(total_principal)),
                      total_interest  |-> RoundMills(CentsToMills(total_interest)),
                      total_payments  |-> RoundMills(CentsToMills(total_principal + total_interest))]
    /\ pc' = "summarized"
    /\ UNCHANGED <<args, error, R, terms, emi, dates, k, product, F, balance, schedule>>

Next == \/ Construct
        \/ EmiLoop
        \/ EmiReturn
        \/ GetSchedule
        \/ ScheduleLoop
        \/ ScheduleReturn
        \/ Summarize

Spec == Init /\ [][Next]_vars

(***************************************************************************)
(* Properties                                                              *)
(***************************************************************************)
\* the terms the specification calls valid
Valid == /\ P > 0
         /\ years >= 1
         /\ frequency \in DOMAIN periods_per_year
         /\ convention \in ConventionKeys

\* get_schedule has returned
Returned == pc \in {"scheduled", "summarized"}

\* _generate_payment_dates has just returned its list to calculate_emi or
\* to get_schedule (the list is not changed afterwards)
Generated == pc \in {"calculate_emi", "get_schedule"} /\ k = 1

\* calculate_emi or get_schedule is about to hand (dates[k], dates[k + 1])
\* to the day count function
InLoop == pc \in {"calculate_emi", "get_schedule"} /\ k < Len(dates)

\* the principal has at most two fractional digits
WholeCents == P % 10 = 0

Abs(x) == IF x < 0 THEN -x ELSE x

MonthBased == {"M", "Q", "S", "A"}

\* C1: for valid terms the schedule get_schedule returns has one row per
\* period and its last row has Closing Balance 0.00, whatever drift the
\* earlier rows accumulated.
C1_FinalClosingZero ==
    (Valid /\ Returned) =>
        /\ Len(schedule) = terms
        /\ schedule[terms].closing_balance = 0

\* a returned schedule whose last installment differs from the solved one:
\* drift had accumulated and the last row closed at zero all the same
C1_Witness ==
    /\ Valid /\ Returned
    /\ Len(schedule) = terms
    /\ schedule[terms].emi # emi
    /\ schedule[terms].closing_balance = 0

\* C2 as claimed: in every row Opening Balance = Principal + Interest +
\* Closing Balance, to the cent.
C2_OpeningIsPrincipalInterestClosing ==
    Valid =>
        \A i \in 1..Len(schedule) :
            schedule[i].opening_balance
                = schedule[i].principal + schedule[i].interest + schedule[i].closing_balance

\* C2 as amended: in every row Opening Balance = Principal + Closing Balance
\* (the interest is no part of it), to the cent when the loan principal has
\* at most two fractional digits and within one cent otherwise.
C2_OpeningIsPrincipalPlusClosing ==
    Valid =>
        \A i \in 1..Len(schedule) :
            LET gap == schedule[i].opening_balance
                       - (schedule[i].principal + schedule[i].closing_balance)
            IN  /\ WholeCents => gap = 0
                /\ Abs(gap) <= 1

\* a non-final row that bears interest and balances without it
C2_Witness ==
    /\ Valid /\ WholeCents /\ Returned
    /\ \E i \in 1..(Len(schedule) - 1) :
           /\ schedule[i].interest > 0
           /\ schedule[i].closing_balance > 0
           /\ schedule[i].opening_balance
                  = schedule[i].principal + schedule[i].closing_balance

\* C3 as claimed: the Principal column of the returned schedule sums to the
\* original principal exactly.
C3_PrincipalSumIsPrincipal ==
    (Valid /\ pc = "summarized") => CentsToMills(totals.total_principal) = P

\* C3 as amended: the Principal column sums to the original principal
\* exactly when the principal has at most two fractional digits, and to
\* within half a cent of it otherwise.
C3_PrincipalSumNearPrincipal ==
    (Valid /\ pc = "summarized") =>
        /\ totals.total_principal = SumOf(schedule, "principal")
        /\ WholeCents => CentsToMills(totals.total_principal) = P
        /\ Abs(CentsToMills(totals.total_principal) - P) <= 5

\* the residual was folded into the last row (its principal is not the
\* solved installment less interest) and the column sums to the principal
C3_Witness ==
    /\ Valid /\ WholeCents /\ pc = "summarized"
    /\ schedule[terms].principal # emi - schedule[terms].interest
    /\ CentsToMills(totals.total_principal) = P

C5_MonthEndPreserved ==
    (Generated /\ frequency \in MonthBased) =>
        \A i \in 1..Len(dates) : \A j \in i..Len(dates) :
            IsMonthEnd(dates[i]) => IsMonthEnd(dates[j])

\* monthly from 2024-01-31 over two years: February of a leap year and of
\* a common year, each at its last day
C5_Witness ==
    /\ Generated /\ frequency = "M"
    /\ Len(dates) = 25
    /\ dates[1] = Date(2024, 1, 31)
    /\ dates[2] = Date(2024, 2, 29)
    /\ dates[4] = Date(2024, 4, 30)
    /\ dates[14] = Date(2025, 2, 28)

\* C6: for a term of at least one year the list has totalPeriods + 1 dates,
\* starts with the start date and is strictly increasing, so each pair
\* (prev_date, pay_date) handed to the day count has prev_date < pay_date.
C6_DatesIncreasing ==
    /\ (Generated /\ years >= 1) =>
           /\ terms = years * periods_per_year[frequency]
           /\ Len(dates) = terms + 1
           /\ dates[1] = start_date
           /\ \A i \in 1..(Len(dates) - 1) : toordinal(dates[i]) < toordinal(dates[i + 1])
    /\ InLoop => toordinal(dates[k]) < toordinal(dates[k + 1])

\* get_schedule hands the last pair of a two-year weekly list to the day
\* count function
C6_Witness ==
    /\ pc = "get_schedule" /\ frequency = "W" /\ years = 2
    /\ Len(dates) = 105
    /\ dates[1] = start_date
    /\ k = 104
    /\ toordinal(dates[k]) < toordinal(dates[k + 1])

\* C7 as claimed: an unrecognized frequency or convention code, a
\* non-positive principal or a non-positive term makes the constructor
\* raise; no installment and no schedule row is produced.
C7_InvalidTermsRejected ==
    (~Valid /\ pc # "request") =>
        /\ pc \in {"calculate_emi", "raised"}
        /\ schedule = <<>>

\* C8: a weekly list has years * 52 payment dates after the start date, the
\* k-th of them k * 7 days after the start date, month-end start dates
\* included; a bi-weekly list likewise with 26 and 14.
C8_WeeksAreSevenDays ==
    (Generated /\ frequency \in {"W", "BW"}) =>
        LET step == IF frequency = "W" THEN 7 ELSE 14
        IN  /\ Len(dates) = Max(years, 0) * (364 \div step) + 1
            /\ \A i \in 1..Len(dates) :
                   toordinal(dates[i]) = toordinal(start_date) + step * (i - 1)

\* weekly from a month-end start date: the next dates are no month-ends
C8_Witness ==
    /\ Generated /\ frequency = "W" /\ years = 1
    /\ IsMonthEnd(dates[1])
    /\ Len(dates) = 53
    /\ dates[2] = Date(2024, 2, 7)
    /\ dates[53] = Date(2025, 1, 29)

\* C9 as claimed: in every row EMI = Principal + Interest, and in every
\* non-final row EMI is the solved installment.
C9_InstallmentIsPrincipalPlusInterest ==
    Valid =>
        \A i \in 1..Len(schedule) :
            /\ schedule[i].emi = schedule[i].principal + schedule[i].interest
            /\ i < terms => schedule[i].emi = emi

\* C9 as amended: in every non-final row EMI is the solved installment and
\* equals Principal + Interest; in the final row EMI = Principal + Interest
\* when the loan principal has at most two fractional digits, and is within
\* one cent of it otherwise.
C9_InstallmentNearPrincipalPlusInterest ==
    Valid =>
        \A i \in 1..Len(schedule) :
            LET gap == schedule[i].emi - (schedule[i].principal + schedule[i].interest)
            IN  /\ i < terms => (schedule[i].emi = emi /\ gap = 0)
                /\ WholeCents => gap = 0
                /\ Abs(gap) <= 1

\* a final row whose installment is not the solved one and is the sum of
\* its principal and interest
C9_Witness ==
    /\ Valid /\ WholeCents /\ Returned
    /\ schedule[terms].emi # emi
    /\ schedule[terms].interest > 0
    /\ schedule[terms].emi = schedule[terms].principal + schedule[terms].interest

\* C10 as claimed: for valid terms at a positive rate no row's interest
\* exceeds its installment, every Principal is >= 0, no Closing Balance
\* exceeds its Opening Balance, and no balance is negative.
C10_BalanceNeverGrows ==
    (Valid /\ annual_rate > 0) =>
        \A i \in 1..Len(schedule) :
            /\ schedule[i].interest <= schedule[i].emi
            /\ schedule[i].principal >= 0
            /\ schedule[i].closing_balance <= schedule[i].opening_balance
            /\ schedule[i].closing_balance >= 0

====
